---- MODULE Spec2Model ----
\* Real-time private chat of skillsyncMaster: ChatConsumer (main/consumers.py)
\* over the ChatRoom / Message tables (main/models.py), with the views of
\* main/views.py that write those tables: start_chat, chat_room, chat_detail
\* and the account deletion that cascades into them.
EXTENDS Naturals, Sequences, FiniteSets

\* A consumer runs one handler at a time (connect, receive, chat_message,
\* disconnect); inside a handler every await is a point where the handlers of
\* other consumers may run. A call of the channel layer (group_add,
\* group_discard, group_send) is one step.

\* ------------------------------------------------------------------ bounds
MaxDisc == 2        \* calls of disconnect on one consumer

Sess == {1, 2}                      \* websocket connections (channel names)
Fids == {1, 2}                      \* tags of the frames that reach save_message
Anonymous == "anon"                 \* AnonymousUser: is_authenticated is False
AllUsers == {"A", "B", "C"}
RoomIds == {1, 2}                   \* room_id values a URL can carry
Texts ==                            \* values of the message field: strings of
                                    \* " " (whitespace) and "x" (a printing character)
    {<<>>, <<" ", " ">>, <<" ", "x", " ">>, <<"x", " ", "x">>}
Stamps == {0, 1}                    \* readings of the clock (timezone.now())
Reqs == {1, 2}                      \* HTTP requests that can be in service at once
NewRoomIds == {2, 3}                \* ids the ChatRoom table can still hand out
OtpUsers == {"A", "B"}              \* the accounts a password reset is asked for
Otps == {"111111", "222222"}        \* results of random.choices(string.digits, k=6)
OtpStamps == {0, 1, 2}              \* readings of the clock during a password reset
FiveMinutes == 2                    \* timedelta(minutes=5), in steps of the clock
Passwords ==                        \* values of the fields password1 and password2
    {"", "short", "password1", "password2"}

\* An inbound text frame, by what json.loads and data.get make of it.
\*   notjson    text that is not JSON            (json.loads raises JSONDecodeError)
\*   nonobject  JSON that is not an object       (data has no .get)
\*   nomessage  an object without "message"      (data.get gives '')
\*   nontext    an object whose message is not a string (the value has no .strip)
\*   text       an object whose message is the string `text`
FrameBodies ==
    {[kind |-> k, text |-> <<>>] : k \in {"notjson", "nonobject", "nomessage", "nontext"}}
        \cup {[kind |-> "text", text |-> t] : t \in Texts}

VARIABLES
    users,      \* rows of auth User
    chatRooms,  \* rows of ChatRoom: [id, user1, user2]
    messages,   \* rows of Message in timestamp (insertion) order
    groups,     \* channel layer: room_id -> set of channels in group chat_<room_id>
    chan,       \* channel layer: channel -> queue of events sent to it
    pc,         \* where each consumer is
    user,       \* self.user
    room_id,    \* self.room_id
    accepted,   \* the handshake was accepted (self.accept())
    closed,     \* the transport is closed
    message,    \* the local `message` of the running receive
    out,        \* frames sent to the client (self.send)
    nDisc,      \* calls of disconnect so far
    nextFid,    \* auxiliary: tag of the next message that reaches its save
    drops,      \* auxiliary: the reasons for which receive has dropped a frame
    now,        \* the clock that auto_now_add reads
    nextRoomId, \* the next id of the ChatRoom table's AutoField
    req,        \* the HTTP requests being served: where each one is
    password,   \* User.password of each user
    otps,       \* rows of PasswordResetOTP, one per user at most
    oreq        \* auxiliary: the password reset request served last

vars == <<users, chatRooms, messages, groups, chan, pc, user, room_id,
          accepted, closed, message, out, nDisc, nextFid, drops,
          now, nextRoomId, req, password, otps, oreq>>

\* what the chat never writes
otpVars == <<password, otps, oreq>>

\* what the consumer's handlers never write
viewVars == <<now, nextRoomId, req>>

NoMessage == [text |-> <<>>, fid |-> 0, from |-> 0]

\* The fields fid and from of a frame's message, row, event and payload are
\* auxiliary: they name the frame (its tag, the connection it came in on) and
\* no guard and no other field reads them.

\* A request that is not being served
Idle == [pc |-> "idle", me |-> Anonymous, other |-> Anonymous, room |-> 0, text |-> <<>>]

\* What a request carries besides its URL: GET, or POST with its message field
Forms ==
    {[method |-> "GET", text |-> <<>>]}
        \cup {[method |-> "POST", text |-> t] : t \in {<<" ", " ">>, <<" ", "x", " ">>}}

\* No password reset request has been served
NoRequest ==
    [view |-> "none", method |-> "GET", user |-> Anonymous, otp |-> "",
     password1 |-> ""]

\* ------------------------------------------------------------------ helpers

\* User.id
uid(u) == CASE u = "A" -> 1 [] u = "B" -> 2 [] OTHER -> 3

RECURSIVE lstrip(_)
lstrip(t) == IF t # <<>> /\ Head(t) = " " THEN lstrip(Tail(t)) ELSE t

RECURSIVE rstrip(_)
rstrip(t) == IF t # <<>> /\ t[Len(t)] = " " THEN rstrip(SubSeq(t, 1, Len(t) - 1)) ELSE t

\* a receive that forgets .strip()
strip_forgotten(t) == t

\* a receive that calls .lstrip()
strip_left_only(t) == lstrip(t)

\* str.strip()
strip(t) == rstrip(lstrip(t))

\* The first lines of receive (json.loads, data.get, strip, `if not message`):
\*   "pass"    JSONDecodeError, caught by the except clause
\*   "raise"   AttributeError, which no except clause of receive catches
\*   "return"  the message is empty after strip
\*   "save"    go on to save_message
receive_parse(f) ==
    IF f.kind = "notjson" THEN "pass"
    ELSE IF f.kind \in {"nonobject", "nontext"} THEN "raise"
    ELSE IF strip(f.text) = <<>> THEN "return"
    ELSE "save"

\* is_room_member that only looks the room up
is_room_member_any_user(s) == \E room \in chatRooms : room.id = room_id[s]

\* ChatConsumer.is_room_member
is_room_member(s) ==
    \E room \in chatRooms : room.id = room_id[s] /\ user[s] \in {room.user1, room.user2}

\* channel_layer.group_add / group_discard / group_send on group chat_<r>
group_add(g, r, c) == [g EXCEPT ![r] = @ \cup {c}]

\* a disconnect that leaves the channel in its group
group_discard_nothing(g, r, c) == g

\* a disconnect that empties the group
group_discard_whole_group(g, r, c) == [g EXCEPT ![r] = {}]

group_discard(g, r, c) == [g EXCEPT ![r] = @ \ {c}]

\* a group_send that puts the event in front of the waiting ones
group_send_in_front(q, g, r, event) ==
    [c \in Sess |-> IF c \in g[r] THEN <<event>> \o q[c] ELSE q[c]]

\* a group_send that reaches every channel of the layer
group_send_every_channel(q, g, r, event) == [c \in Sess |-> Append(q[c], event)]

\* a group_send that gives up when a channel of the group has a closed socket
group_send_all_or_nothing(q, g, r, event) ==
    [c \in Sess |-> IF c \in g[r] /\ \A d \in g[r] : ~closed[d]
                     THEN Append(q[c], event) ELSE q[c]]

group_send(q, g, r, event) ==
    [c \in Sess |-> IF c \in g[r] THEN Append(q[c], event) ELSE q[c]]

\* The try block of save_message succeeds: the room row is found and the
\* database takes the insert (dbOk), the sender being an existing User row.
save_ok(s, dbOk) ==
    /\ \E room \in chatRooms : room.id = room_id[s]
    /\ user[s] \in users
    /\ dbOk

\* a receive without `if saved:`
after_save_always_send(saved) == "group_send"

\* receive, line 46: `if saved:` sends to the group, otherwise receive returns
after_save(saved) == IF saved THEN "group_send" ELSE "open"

\* save_message, line 78: the Message row created for the message of receive
RowOf(s) ==
    [room |-> room_id[s], sender |-> user[s], text |-> message[s].text,
     timestamp |-> now, fid |-> message[s].fid, from |-> s]

\* receive, lines 49-53: the event handed to group_send
EventOf(s) ==
    [message |-> message[s].text, username |-> user[s],
     fid |-> message[s].fid, from |-> s]

\* The JSON text chat_message sends for an event
payload(event) ==
    [message |-> event.message, username |-> event.username,
     fid |-> event.fid, from |-> event.from]

\* ------------------------------------------------------------------ initial state

Init ==
    /\ users = AllUsers
    /\ chatRooms = {[id |-> 1, user1 |-> "A", user2 |-> "B"]}
    /\ messages = <<>>
    /\ groups = [r \in RoomIds |-> {}]
    /\ chan = [s \in Sess |-> <<>>]
    /\ pc = [s \in Sess |-> "new"]
    /\ user = [s \in Sess |-> Anonymous]
    /\ room_id = [s \in Sess |-> 1]
    /\ accepted = [s \in Sess |-> FALSE]
    /\ closed = [s \in Sess |-> FALSE]
    /\ message = [s \in Sess |-> NoMessage]
    /\ out = [s \in Sess |-> <<>>]
    /\ nDisc = [s \in Sess |-> 0]
    /\ nextFid = 1
    /\ drops = {}
    /\ now = 0
    /\ nextRoomId = 2
    /\ req = [q \in Reqs |-> Idle]
    /\ password = [u \in AllUsers |-> "original"]
    /\ otps = {}
    /\ oreq = NoRequest

\* ------------------------------------------------------------------ connect

\* connect, lines 9-16: read the scope (the user of the session cookie, or
\* AnonymousUser), reject an unauthenticated user
Connect(s, u, r) ==
    /\ pc[s] = "new"
    /\ user' = [user EXCEPT ![s] = u]
    /\ room_id' = [room_id EXCEPT ![s] = r]
    /\ IF u = Anonymous
       THEN /\ closed' = [closed EXCEPT ![s] = TRUE]
            /\ pc' = [pc EXCEPT ![s] = "rejected"]
       ELSE /\ closed' = closed
            /\ pc' = [pc EXCEPT ![s] = "is_room_member"]
    /\ UNCHANGED <<users, chatRooms, messages, groups, chan, accepted, message,
                   out, nDisc, nextFid, drops, viewVars, otpVars>>

\* a connect that tells a user who is not in an existing room why it closes
CheckMemberTellsWhy(s) ==
    /\ pc[s] = "is_room_member"
    /\ IF is_room_member(s)
       THEN /\ closed' = closed
            /\ pc' = [pc EXCEPT ![s] = "group_add"]
            /\ out' = out
       ELSE /\ closed' = [closed EXCEPT ![s] = TRUE]
            /\ pc' = [pc EXCEPT ![s] = "rejected"]
            /\ out' = IF \E room \in chatRooms : room.id = room_id[s]
                      THEN [out EXCEPT ![s] = Append(@, payload(EventOf(s)))]
                      ELSE out
    /\ UNCHANGED <<users, chatRooms, messages, groups, chan, user, room_id,
                   accepted, message, nDisc, nextFid, drops, viewVars, otpVars>>

\* connect, lines 18-21: await is_room_member(), close when it is False
CheckMember(s) ==
    /\ pc[s] = "is_room_member"
    /\ IF is_room_member(s)
       THEN /\ closed' = closed
            /\ pc' = [pc EXCEPT ![s] = "group_add"]
       ELSE /\ closed' = [closed EXCEPT ![s] = TRUE]
            /\ pc' = [pc EXCEPT ![s] = "rejected"]
    /\ UNCHANGED <<users, chatRooms, messages, groups, chan, user, room_id,
                   accepted, message, out, nDisc, nextFid, drops, viewVars, otpVars>>

\* a connect that goes on to accept without group_add
GroupAddForgotten(s) ==
    /\ pc[s] = "group_add"
    /\ pc' = [pc EXCEPT ![s] = "accept"]
    /\ UNCHANGED <<users, chatRooms, messages, groups, chan, user, room_id, accepted,
                   closed, message, out, nDisc, nextFid, drops, viewVars, otpVars>>

\* connect, lines 23-26: await channel_layer.group_add
GroupAdd(s) ==
    /\ pc[s] = "group_add"
    /\ groups' = group_add(groups, room_id[s], s)
    /\ pc' = [pc EXCEPT ![s] = "accept"]
    /\ UNCHANGED <<users, chatRooms, messages, chan, user, room_id, accepted,
                   closed, message, out, nDisc, nextFid, drops, viewVars, otpVars>>

\* connect, line 27: await self.accept()
Accept(s) ==
    /\ pc[s] = "accept"
    /\ accepted' = [accepted EXCEPT ![s] = TRUE]
    /\ pc' = [pc EXCEPT ![s] = "open"]
    /\ UNCHANGED <<users, chatRooms, messages, groups, chan, user, room_id,
                   closed, message, out, nDisc, nextFid, drops, viewVars, otpVars>>

\* ------------------------------------------------------------------ receive loop

\* receive, lines 36-41 and 55-56: the next frame of the client is handed to
\* receive, which parses it. An exception that receive does not catch ends the
\* consumer's task: the server closes the socket and no handler of this
\* consumer runs again.
Receive(s, body) ==
    /\ pc[s] = "open"
    /\ LET o == receive_parse(body)
       IN /\ o = "save" => nextFid \in Fids
          /\ nextFid' = IF o = "save" THEN nextFid + 1 ELSE nextFid
          /\ drops' = IF o \in {"pass", "return"} THEN drops \cup {o} ELSE drops
          /\ pc' = [pc EXCEPT ![s] = CASE o = "save" -> "save_message"
                                       [] o = "raise" -> "crashed"
                                       [] OTHER -> "open"]
          /\ message' = [message EXCEPT ![s] =
                            IF o = "save" THEN [text |-> strip(body.text), fid |-> nextFid, from |-> s]
                            ELSE NoMessage]
          /\ closed' = [closed EXCEPT ![s] = (o = "raise")]
    /\ UNCHANGED <<users, chatRooms, messages, groups, chan, user, room_id,
                   accepted, out, nDisc, viewVars, otpVars>>

\* receive, line 44: saved = await self.save_message(message)
SaveMessage(s, dbOk) ==
    /\ pc[s] = "save_message"
    /\ LET saved == save_ok(s, dbOk)
       IN /\ messages' = IF saved
                         THEN Append(messages, RowOf(s))
                         ELSE messages
          /\ pc' = [pc EXCEPT ![s] = after_save(saved)]
          /\ message' = [message EXCEPT ![s] =
                            IF after_save(saved) = "open" THEN NoMessage ELSE @]
    /\ UNCHANGED <<users, chatRooms, groups, chan, user, room_id, accepted,
                   closed, out, nDisc, nextFid, drops, viewVars, otpVars>>

\* a receive that sends the sender its own message itself and leaves the
\* other channels of the group to group_send
GroupSendEchoFirst(s) ==
    /\ pc[s] = "group_send"
    /\ out' = [out EXCEPT ![s] = Append(@, payload(EventOf(s)))]
    /\ chan' = [c \in Sess |-> IF c # s /\ c \in groups[room_id[s]]
                                THEN Append(chan[c], EventOf(s)) ELSE chan[c]]
    /\ pc' = [pc EXCEPT ![s] = "open"]
    /\ message' = [message EXCEPT ![s] = NoMessage]
    /\ UNCHANGED <<users, chatRooms, messages, groups, user, room_id, accepted,
                   closed, nDisc, nextFid, drops, viewVars, otpVars>>

\* receive, lines 46-54: await channel_layer.group_send
GroupSend(s) ==
    /\ pc[s] = "group_send"
    /\ chan' = group_send(chan, groups, room_id[s], EventOf(s))
    /\ pc' = [pc EXCEPT ![s] = "open"]
    /\ message' = [message EXCEPT ![s] = NoMessage]
    /\ UNCHANGED <<users, chatRooms, messages, groups, user, room_id, accepted,
                   closed, out, nDisc, nextFid, drops, viewVars, otpVars>>

\* a chat_message that takes the event and sends nothing
ChatMessageSendsNothing(s) ==
    /\ pc[s] = "open"
    /\ chan[s] # <<>>
    /\ chan' = [chan EXCEPT ![s] = Tail(@)]
    /\ UNCHANGED <<users, chatRooms, messages, groups, pc, user, room_id,
                   accepted, closed, message, out, nDisc, nextFid, drops, viewVars, otpVars>>

\* a consumer that runs chat_message while its connect is still at accept
ChatMessageDuringConnect(s) ==
    /\ pc[s] \in {"accept", "open"}
    /\ chan[s] # <<>>
    /\ out' = [out EXCEPT ![s] = Append(@, payload(Head(chan[s])))]
    /\ chan' = [chan EXCEPT ![s] = Tail(@)]
    /\ UNCHANGED <<users, chatRooms, messages, groups, pc, user, room_id,
                   accepted, closed, message, nDisc, nextFid, drops, viewVars, otpVars>>

\* chat_message: the consumer takes the next event of its channel and sends it
ChatMessage(s) ==
    /\ pc[s] = "open"
    /\ chan[s] # <<>>
    /\ out' = [out EXCEPT ![s] = Append(@, payload(Head(chan[s])))]
    /\ chan' = [chan EXCEPT ![s] = Tail(@)]
    /\ UNCHANGED <<users, chatRooms, messages, groups, pc, user, room_id,
                   accepted, closed, message, nDisc, nextFid, drops, viewVars, otpVars>>

\* ------------------------------------------------------------------ disconnect

\* disconnect: runs when the transport ends (the client closes, or the server
\* closed a rejected handshake) and the running handler is over; a call on a
\* consumer that already ran it is the same group_discard again.
Disconnect(s) ==
    /\ pc[s] \in {"open", "rejected", "done"}
    /\ nDisc[s] < MaxDisc
    /\ groups' = group_discard(groups, room_id[s], s)
    /\ pc' = [pc EXCEPT ![s] = "done"]
    /\ closed' = [closed EXCEPT ![s] = TRUE]
    /\ nDisc' = [nDisc EXCEPT ![s] = @ + 1]
    /\ UNCHANGED <<users, chatRooms, messages, chan, user, room_id, accepted,
                   message, out, nextFid, drops, viewVars, otpVars>>

\* ------------------------------------------------------------------ accounts

\* delete_account: request.user.delete() cascades to the ChatRoom rows of the
\* user (on_delete=CASCADE on user1, user2) and to the Message rows of those
\* rooms and of that sender.
DeleteAccount(u) ==
    /\ u \in users
    /\ users' = users \ {u}
    /\ chatRooms' = {room \in chatRooms : u \notin {room.user1, room.user2}}
    /\ messages' = SelectSeq(messages,
                      LAMBDA m : /\ m.sender # u
                                 /\ \E room \in chatRooms' : room.id = m.room)
    /\ UNCHANGED <<groups, chan, pc, user, room_id, accepted, closed, message,
                   out, nDisc, nextFid, drops, viewVars, otpVars>>

\* ------------------------------------------------------------------ chat views

\* a sort that keeps the order request.user, other_user
sorted_as_given(a, b) == <<a, b>>

\* sorted([request.user, other_user], key=lambda u: u.id)
sorted(a, b) == IF uid(a) <= uid(b) THEN <<a, b>> ELSE <<b, a>>

\* start_chat, lines 853-856: the rooms of the two users, in either direction
filter(a, b) ==
    {room \in chatRooms : \/ room.user1 = a /\ room.user2 = b
                          \/ room.user1 = b /\ room.user2 = a}

\* ChatRoom.objects.get(user1=a, user2=b) inside get_or_create
get(a, b) == {room \in chatRooms : room.user1 = a /\ room.user2 = b}

\* The INSERT of a ChatRoom row is taken: unique_together ('user1', 'user2')
\* and the two foreign keys hold
create_ok(a, b) == get(a, b) = {} /\ a \in users /\ b \in users

\* After the room is known: a POST with a non-empty message goes on to
\* Message.objects.create, everything else ends the request
after_room(q, me, r, text) ==
    IF text # <<>>
    THEN [req EXCEPT ![q] = [Idle EXCEPT !.pc = "post", !.me = me,
                                         !.room = r, !.text = text]]
    ELSE [req EXCEPT ![q] = Idle]

\* request.POST.get('message', '').strip() of a POST; a GET posts nothing
posted(form) == IF form.method = "POST" THEN strip(form.text) ELSE <<>>

\* start_chat, lines 845-858: look the other user up, refuse a chat with
\* oneself, look for the room of the pair
StartChat(q, me, other) ==
    /\ req[q].pc = "idle"
    /\ me \in users /\ other \in users
    /\ req' = IF me # other /\ filter(me, other) = {}
              THEN [req EXCEPT ![q] = [Idle EXCEPT !.pc = "start_chat_create",
                                                   !.me = me, !.other = other]]
              ELSE req
    /\ UNCHANGED <<users, chatRooms, messages, groups, chan, pc, user, room_id,
                   accepted, closed, message, out, nDisc, nextFid, drops,
                   now, nextRoomId, otpVars>>

\* start_chat, lines 860-861: ChatRoom.objects.create; a refused INSERT
\* (IntegrityError) ends the request with no row
StartChatCreate(q) ==
    /\ req[q].pc = "start_chat_create"
    /\ LET p == sorted(req[q].me, req[q].other)
       IN IF create_ok(p[1], p[2])
          THEN /\ nextRoomId \in NewRoomIds
               /\ chatRooms' = chatRooms \cup
                      {[id |-> nextRoomId, user1 |-> p[1], user2 |-> p[2]]}
               /\ nextRoomId' = nextRoomId + 1
          ELSE UNCHANGED <<chatRooms, nextRoomId>>
    /\ req' = [req EXCEPT ![q] = Idle]
    /\ UNCHANGED <<users, messages, groups, chan, pc, user, room_id,
                   accepted, closed, message, out, nDisc, nextFid, drops, now, otpVars>>

\* chat_room, lines 869-877: look the other user up, refuse a chat with
\* oneself, the SELECT of get_or_create
ChatRoomView(q, me, other, form) ==
    /\ req[q].pc = "idle"
    /\ me \in users /\ other \in users
    /\ req' =
          IF me = other THEN req
          ELSE LET p == sorted(me, other)
               IN IF get(p[1], p[2]) # {}
                  THEN after_room(q, me,
                                  (CHOOSE room \in get(p[1], p[2]) : TRUE).id,
                                  posted(form))
                  ELSE [req EXCEPT ![q] = [Idle EXCEPT !.pc = "get_or_create",
                                                       !.me = me, !.other = other,
                                                       !.text = posted(form)]]
    /\ UNCHANGED <<users, chatRooms, messages, groups, chan, pc, user, room_id,
                   accepted, closed, message, out, nDisc, nextFid, drops,
                   now, nextRoomId, otpVars>>

\* chat_room, line 877: the INSERT of get_or_create. When the row of the pair
\* has appeared since the SELECT, the INSERT is refused and get_or_create
\* returns that row; when a foreign key is refused the request ends.
ChatRoomCreate(q) ==
    /\ req[q].pc = "get_or_create"
    /\ LET p == sorted(req[q].me, req[q].other)
       IN IF create_ok(p[1], p[2])
          THEN /\ nextRoomId \in NewRoomIds
               /\ chatRooms' = chatRooms \cup
                      {[id |-> nextRoomId, user1 |-> p[1], user2 |-> p[2]]}
               /\ nextRoomId' = nextRoomId + 1
               /\ req' = after_room(q, req[q].me, nextRoomId, req[q].text)
          ELSE /\ UNCHANGED <<chatRooms, nextRoomId>>
               /\ req' = IF get(p[1], p[2]) # {}
                         THEN after_room(q, req[q].me,
                                         (CHOOSE room \in get(p[1], p[2]) : TRUE).id,
                                         req[q].text)
                         ELSE [req EXCEPT ![q] = Idle]
    /\ UNCHANGED <<users, messages, groups, chan, pc, user, room_id,
                   accepted, closed, message, out, nDisc, nextFid, drops, now, otpVars>>

\* chat_detail, lines 901-915: 404 without the room, redirect when request.user
\* is not one of its two users
ChatDetail(q, me, r, form) ==
    /\ req[q].pc = "idle"
    /\ me \in users
    /\ req' = IF \E room \in chatRooms : room.id = r /\ me \in {room.user1, room.user2}
              THEN after_room(q, me, r, posted(form))
              ELSE req
    /\ UNCHANGED <<users, chatRooms, messages, groups, chan, pc, user, room_id,
                   accepted, closed, message, out, nDisc, nextFid, drops,
                   now, nextRoomId, otpVars>>

\* The Message row of a POST
PostRowOf(q) ==
    [room |-> req[q].room, sender |-> req[q].me, text |-> req[q].text,
     timestamp |-> now, fid |-> nextFid, from |-> 0]

\* chat_room, lines 882-886, and chat_detail, lines 916-920:
\* Message.objects.create; the INSERT is refused (IntegrityError) when the
\* room or the sender is no longer there
Post(q) ==
    /\ req[q].pc = "post"
    /\ IF /\ \E room \in chatRooms : room.id = req[q].room
          /\ req[q].me \in users
       THEN /\ nextFid \in Fids
            /\ messages' = Append(messages, PostRowOf(q))
            /\ nextFid' = nextFid + 1
       ELSE UNCHANGED <<messages, nextFid>>
    /\ req' = [req EXCEPT ![q] = Idle]
    /\ UNCHANGED <<users, chatRooms, groups, chan, pc, user, room_id,
                   accepted, closed, message, out, nDisc, drops, now, nextRoomId, otpVars>>

\* The clock advances. Only the order of the readings matters, so the steps
\* of the clock between two INSERTs are taken as one, after the first of the two.
Tick ==
    /\ now + 1 \in Stamps
    /\ messages # <<>> /\ messages[Len(messages)].timestamp = now
    /\ now' = now + 1
    /\ UNCHANGED <<users, chatRooms, messages, groups, chan, pc, user, room_id,
                   accepted, closed, message, out, nDisc, nextFid, drops,
                   nextRoomId, req, otpVars>>

\* ------------------------------------------------------------------ password reset

\* PasswordResetOTP.objects.filter(user=u): user is a OneToOneField, so the
\* table holds one row of a user at most
otp_rows(u) == {row \in otps : row.user = u}

\* PasswordResetOTP.is_otp_valid, lines 135-138
is_otp_valid(otp_obj) == now < otp_obj.created_at + FiveMinutes

\* len(password1)
len(p) == Len(p)

\* The email field of forgot_password, by what strip().lower() and the lookup
\* email__iexact make of it: blank, or the address of the user `user`
\* (Anonymous: an address that no user has)
EmailForms ==
    {[method |-> "GET", blank |-> TRUE, user |-> Anonymous]}
        \cup {[method |-> "POST", blank |-> TRUE, user |-> Anonymous]}
        \cup {[method |-> "POST", blank |-> FALSE, user |-> u] :
                  u \in OtpUsers \cup {Anonymous}}

\* The otp field of verify_otp, after strip()
OtpForms ==
    {[method |-> "GET", otp |-> ""]}
        \cup {[method |-> "POST", otp |-> o] : o \in Otps \cup {""}}

\* The fields password1 and password2 of reset_password
PasswordForms ==
    {[method |-> "GET", password1 |-> "", password2 |-> ""]}
        \cup {[method |-> "POST", password1 |-> p1, password2 |-> p2] :
                  p1 \in Passwords, p2 \in Passwords}

\* forgot_password, lines 215-246. For a POST of an anonymous client whose
\* email is that of a user: get_or_create the user's row (line 229), then
\* generate_otp (models.py 140-145) writes a fresh otp, is_verified False and,
\* by auto_now, created_at. Sending the mail changes no table.
ForgotPassword(is_authenticated, form, otp) ==
    /\ oreq' = [NoRequest EXCEPT !.view = "forgot_password", !.method = form.method,
                                 !.user = form.user]
    /\ IF /\ ~is_authenticated
          /\ form.method = "POST" /\ ~form.blank
          /\ form.user \in users
       THEN otps' = (otps \ otp_rows(form.user)) \cup
                       {[user |-> form.user, otp |-> otp, created_at |-> now,
                         is_verified |-> FALSE]}
       ELSE otps' = otps
    /\ UNCHANGED <<users, chatRooms, messages, groups, chan, pc, user, room_id,
                   accepted, closed, message, out, nDisc, nextFid, drops,
                   now, nextRoomId, req, password>>

\* a verify_otp that takes every code that is not empty
VerifyOtpAnyCode(user_id, form) ==
    /\ user_id \in users
    /\ oreq' = [NoRequest EXCEPT !.view = "verify_otp", !.method = form.method,
                                 !.user = user_id, !.otp = form.otp]
    /\ IF /\ form.method = "POST" /\ form.otp # ""
          /\ \E otp_obj \in otp_rows(user_id) : is_otp_valid(otp_obj)
       THEN otps' = (otps \ otp_rows(user_id)) \cup
                       {[otp_obj EXCEPT !.is_verified = TRUE, !.created_at = now] :
                           otp_obj \in otp_rows(user_id)}
       ELSE otps' = otps
    /\ UNCHANGED <<users, chatRooms, messages, groups, chan, pc, user, room_id,
                   accepted, closed, message, out, nDisc, nextFid, drops,
                   now, nextRoomId, req, password>>

\* verify_otp, lines 249-279: 404 without the user; for a POST with a code,
\* the user's row is read, refused when is_otp_valid is False, and when its
\* otp is the code, saved with is_verified True (and, by auto_now, created_at)
VerifyOtp(user_id, form) ==
    /\ user_id \in users
    /\ oreq' = [NoRequest EXCEPT !.view = "verify_otp", !.method = form.method,
                                 !.user = user_id, !.otp = form.otp]
    /\ IF /\ form.method = "POST" /\ form.otp # ""
          /\ \E otp_obj \in otp_rows(user_id) :
                is_otp_valid(otp_obj) /\ otp_obj.otp = form.otp
       THEN otps' = (otps \ otp_rows(user_id)) \cup
                       {[otp_obj EXCEPT !.is_verified = TRUE, !.created_at = now] :
                           otp_obj \in otp_rows(user_id)}
       ELSE otps' = otps
    /\ UNCHANGED <<users, chatRooms, messages, groups, chan, pc, user, room_id,
                   accepted, closed, message, out, nDisc, nextFid, drops,
                   now, nextRoomId, req, password>>

\* reset_password, lines 282-323: 404 without the user; the user's row must
\* be there with is_verified True; a POST whose two passwords are given,
\* equal and of 8 characters at least sets the password (lines 314-315) and
\* deletes the row (line 318)
ResetPassword(user_id, form) ==
    /\ user_id \in users
    /\ oreq' = [NoRequest EXCEPT !.view = "reset_password", !.method = form.method,
                                 !.user = user_id, !.password1 = form.password1]
    /\ IF /\ \E otp_obj \in otp_rows(user_id) : otp_obj.is_verified
          /\ form.method = "POST"
          /\ form.password1 # "" /\ form.password2 # ""
          /\ form.password1 = form.password2
          /\ len(form.password1) >= 8
       THEN /\ password' = [password EXCEPT ![user_id] = form.password1]
            /\ otps' = otps \ otp_rows(user_id)
       ELSE UNCHANGED <<password, otps>>
    /\ UNCHANGED <<users, chatRooms, messages, groups, chan, pc, user, room_id,
                   accepted, closed, message, out, nDisc, nextFid, drops,
                   now, nextRoomId, req>>

\* Time passes between two requests of a password reset
Elapse ==
    /\ now + 1 \in OtpStamps
    /\ now' = now + 1
    /\ UNCHANGED <<users, chatRooms, messages, groups, chan, pc, user, room_id,
                   accepted, closed, message, out, nDisc, nextFid, drops,
                   nextRoomId, req, otpVars>>

\* ------------------------------------------------------------------ specification

\* The accounts whose deletion reaches the chat tables: deleting an account
\* that is in no room changes no ChatRoom and no Message row.
Participants == {room.user1 : room \in chatRooms} \cup {room.user2 : room \in chatRooms}

\* The consumers of two connections and the account deletion. The views and
\* the clock are in SpecViews and SpecLog: no handler of a consumer reads the
\* clock or a request, so here the rooms are those of the initial state and
\* the timestamps of the rows are not told apart.
Next ==
    \/ \E s \in Sess, u \in users \cup {Anonymous}, r \in RoomIds : Connect(s, u, r)
    \/ \E s \in Sess : CheckMember(s)
    \/ \E s \in Sess : GroupAdd(s)
    \/ \E s \in Sess : Accept(s)
    \/ \E s \in Sess, body \in FrameBodies : Receive(s, body)
    \/ \E s \in Sess, dbOk \in BOOLEAN : SaveMessage(s, dbOk)
    \/ \E s \in Sess : GroupSend(s)
    \/ \E s \in Sess : ChatMessage(s)
    \/ \E s \in Sess : Disconnect(s)
    \/ \E u \in Participants : DeleteAccount(u)

Spec == Init /\ [][Next]_vars

\* Fair scheduling: an await inside a handler returns (accept, save_message,
\* group_send), and a consumer whose channel has an event waiting is handed
\* it, however often frames of its client come in between.
Fairness ==
    \A s \in Sess :
        /\ WF_vars(Accept(s))
        /\ WF_vars(\E dbOk \in BOOLEAN : SaveMessage(s, dbOk))
        /\ WF_vars(GroupSend(s))
        /\ SF_vars(ChatMessage(s))

\* The consumers under fair scheduling, with one frame that is saved and one
\* that ends the consumer
LiveBodies ==
    {[kind |-> "nonobject", text |-> <<>>], [kind |-> "text", text |-> <<" ", "x", " ">>]}

NextLive ==
    \/ \E s \in Sess, u \in users \cup {Anonymous}, r \in RoomIds : Connect(s, u, r)
    \/ \E s \in Sess : CheckMember(s)
    \/ \E s \in Sess : GroupAdd(s)
    \/ \E s \in Sess : Accept(s)
    \/ \E s \in Sess, body \in LiveBodies : Receive(s, body)
    \/ \E s \in Sess, dbOk \in BOOLEAN : SaveMessage(s, dbOk)
    \/ \E s \in Sess : GroupSend(s)
    \/ \E s \in Sess : ChatMessage(s)
    \/ \E s \in Sess : Disconnect(s)
    \/ \E u \in Participants : DeleteAccount(u)

FairSpec == Init /\ [][NextLive]_vars /\ Fairness

\* The same consumers over a ChatRoom table with two rooms, the second made
\* by a start_chat of A with C
TwoRooms ==
    {[id |-> 1, user1 |-> "A", user2 |-> "B"], [id |-> 2, user1 |-> "A", user2 |-> "C"]}

InitTwoRooms ==
    /\ users = AllUsers
    /\ chatRooms = TwoRooms
    /\ messages = <<>>
    /\ groups = [r \in RoomIds |-> {}]
    /\ chan = [s \in Sess |-> <<>>]
    /\ pc = [s \in Sess |-> "new"]
    /\ user = [s \in Sess |-> Anonymous]
    /\ room_id = [s \in Sess |-> 1]
    /\ accepted = [s \in Sess |-> FALSE]
    /\ closed = [s \in Sess |-> FALSE]
    /\ message = [s \in Sess |-> NoMessage]
    /\ out = [s \in Sess |-> <<>>]
    /\ nDisc = [s \in Sess |-> 0]
    /\ nextFid = 1
    /\ drops = {}
    /\ now = 0
    /\ nextRoomId = 3
    /\ req = [q \in Reqs |-> Idle]
    /\ password = [u \in AllUsers |-> "original"]
    /\ otps = {}
    /\ oreq = NoRequest

SpecTwoRooms == InitTwoRooms /\ [][NextLive]_vars

\* The views and the account deletion, two requests at a time
NextViews ==
    \/ \E q \in Reqs, me \in users, other \in users : StartChat(q, me, other)
    \/ \E q \in Reqs : StartChatCreate(q)
    \/ \E q \in Reqs, me \in users, other \in users, form \in Forms :
          ChatRoomView(q, me, other, form)
    \/ \E q \in Reqs : ChatRoomCreate(q)
    \/ \E q \in Reqs, me \in users, r \in RoomIds \cup NewRoomIds, form \in Forms :
          ChatDetail(q, me, r, form)
    \/ \E q \in Reqs : Post(q)
    \/ \E u \in users : DeleteAccount(u)
    \/ Tick

SpecViews == Init /\ [][NextViews]_vars

\* Every path that writes the Message table: one websocket connection, one
\* request at a time, the account deletion and the clock
LogSess == {1}
LogReqs == {1}
LogBodies == {body \in FrameBodies : body.kind = "text"}

NextLog ==
    \/ \E s \in LogSess, u \in users \cup {Anonymous}, r \in RoomIds : Connect(s, u, r)
    \/ \E s \in LogSess : CheckMember(s)
    \/ \E s \in LogSess : GroupAdd(s)
    \/ \E s \in LogSess : Accept(s)
    \/ \E s \in LogSess, body \in LogBodies : Receive(s, body)
    \/ \E s \in LogSess, dbOk \in BOOLEAN : SaveMessage(s, dbOk)
    \/ \E s \in LogSess : GroupSend(s)
    \/ \E s \in LogSess : ChatMessage(s)
    \/ \E s \in LogSess : Disconnect(s)
    \/ \E q \in LogReqs, me \in users, other \in users : StartChat(q, me, other)
    \/ \E q \in LogReqs : StartChatCreate(q)
    \/ \E q \in LogReqs, me \in users, other \in users, form \in Forms :
          ChatRoomView(q, me, other, form)
    \/ \E q \in LogReqs : ChatRoomCreate(q)
    \/ \E q \in LogReqs, me \in users, r \in RoomIds \cup NewRoomIds, form \in Forms :
          ChatDetail(q, me, r, form)
    \/ \E q \in LogReqs : Post(q)
    \/ \E u \in users : DeleteAccount(u)
    \/ Tick

SpecLog == Init /\ [][NextLog]_vars

\* The password reset: its three views, each request served whole, one
\* after another, and the clock
NextOtp ==
    \/ \E is_authenticated \in BOOLEAN, form \in EmailForms, otp \in Otps :
          ForgotPassword(is_authenticated, form, otp)
    \/ \E user_id \in OtpUsers, form \in OtpForms : VerifyOtp(user_id, form)
    \/ \E user_id \in OtpUsers, form \in PasswordForms : ResetPassword(user_id, form)
    \/ Elapse

SpecOtp == Init /\ [][NextOtp]_vars

\* ------------------------------------------------------------------ vocabulary of the claims

\* The ChatRoom rows with id r
RoomRows(r) == {room \in chatRooms : room.id = r}

\* The identity of connection s may not join its room: it is not authenticated,
\* or the room does not exist, or it is not one of the room's two participants.
Unauthorized(s) ==
    \/ user[s] = Anonymous
    \/ RoomRows(room_id[s]) = {}
    \/ \A room \in RoomRows(room_id[s]) : user[s] # room.user1 /\ user[s] # room.user2

\* Connection s is in some Broadcast Group
Registered(s) == \E r \in RoomIds : s \in groups[r]

\* The handshake of s was refused: closed and never accepted
Refused(s) == closed[s] /\ ~accepted[s]

\* C1: a connect attempt whose identity is not authenticated, is not one of the
\* two participants of the target room, or whose target room does not exist,
\* ends closed; a refused connection is in no Broadcast Group and is never
\* accepted afterwards.
C1_RejectClosesWithoutJoin ==
    /\ [](\A s \in Sess : Refused(s) => ~Registered(s))
    /\ [][\A s \in Sess :
            /\ (pc[s] = "new" /\ pc'[s] # "new" /\ user'[s] = Anonymous) => Refused(s)'
            /\ (pc[s] = "is_room_member" /\ pc'[s] # "is_room_member" /\ Unauthorized(s))
                  => Refused(s)'
            /\ Refused(s) => Refused(s)' /\ ~Registered(s)']_vars

\* A participant of room 1 is joined and registered while an authenticated
\* user who is not a participant of room 1 has been refused and its
\* disconnect has run.
C1_Witness ==
    \E s, t \in Sess :
        /\ pc[s] = "done" /\ Refused(s) /\ user[s] = "C" /\ room_id[s] = 1
        /\ RoomRows(1) # {}
        /\ pc[t] = "open" /\ t \in groups[1]

\* C2: a session has at most one registration; from its accept to its first
\* disconnect it is registered in the group of its room, after its first
\* disconnect in none; the first disconnect removes that registration only, and
\* a further disconnect, or the disconnect of a refused session, changes no
\* group and ends normally.
C2_OneRegistrationUntilDisconnect ==
    /\ [](\A s \in Sess :
            /\ Cardinality({r \in RoomIds : s \in groups[r]}) <= 1
            /\ (accepted[s] /\ nDisc[s] = 0) => s \in groups[room_id[s]]
            /\ nDisc[s] >= 1 => ~Registered(s))
    /\ [][\A s \in Sess :
            nDisc'[s] = nDisc[s] + 1 =>
                /\ pc'[s] = "done"
                /\ \A r \in RoomIds : groups'[r] = groups[r] \ {s}
                /\ (nDisc[s] >= 1 \/ Refused(s)) => groups' = groups]_vars

\* An accepted session has been disconnected twice and a refused session once.
C2_Witness ==
    \E s, t \in Sess :
        /\ accepted[s] /\ nDisc[s] = 2
        /\ Refused(t) /\ nDisc[t] = 1

\* The message field of the frame is absent, empty or only whitespace
Blank(body) ==
    /\ body.kind \in {"nomessage", "text"}
    /\ \A i \in 1..Len(body.text) : body.text[i] = " "

\* C3: receive of a frame whose message is absent, empty or whitespace returns
\* at once: nothing is appended to the Message Log, nothing is sent to the
\* group, and every session's delivered payloads are unchanged.
C3_BlankFrameDropped ==
    [][\A s \in Sess, body \in FrameBodies :
          (Blank(body) /\ Receive(s, body)) =>
              /\ pc'[s] = "open"
              /\ messages' = messages
              /\ chan' = chan
              /\ out' = out]_vars

\* A joined connection dropped a blank frame and is open for the next one,
\* after a message of that room was saved.
C3_Witness ==
    \E s \in Sess :
        /\ pc[s] = "open" /\ s \in groups[room_id[s]]
        /\ drops = {"return"}
        /\ messages # <<>>

\* u is t without its leading and trailing whitespace, and is not empty
IsTrimOf(u, t) ==
    /\ u # <<>>
    /\ u[1] # " " /\ u[Len(u)] # " "
    /\ \E i \in 1..Len(t) :
          /\ i + Len(u) - 1 <= Len(t)
          /\ u = SubSeq(t, i, i + Len(u) - 1)
          /\ \A k \in 1..Len(t) : (k < i \/ k > i + Len(u) - 1) => t[k] = " "

\* The step ends the await of save_message / of group_send in the receive of s
SaveReturns(s) == pc[s] = "save_message" /\ pc'[s] # "save_message"
SendReturns(s) == pc[s] = "group_send" /\ pc'[s] # "group_send"

\* C4 as stated: every frame with a non-empty message from a joined sender
\* appends one Message Log entry and goes on to its broadcast.
C4_EveryFrameIsAppended ==
    [][\A s \in Sess :
          SaveReturns(s) => /\ Len(messages') = Len(messages) + 1
                            /\ pc'[s] = "group_send"]_vars

\* C4, amended: receive keeps the trimmed message of a non-empty frame; when
\* save_message succeeds it appends exactly one entry (the connection's room,
\* its user, the trimmed text) and receive then issues exactly one broadcast
\* whose message is the trimmed text and whose username is the sender; when
\* save_message fails nothing is appended and nothing is broadcast.
C4_SavedFrameAppendedAndBroadcastOnce ==
    /\ [](\A i, j \in 1..Len(messages) : messages[i].fid = messages[j].fid => i = j)
    /\ [][\A s \in Sess :
            /\ \A body \in FrameBodies :
                  (body.kind = "text" /\ ~Blank(body) /\ Receive(s, body)) =>
                      /\ pc'[s] = "save_message"
                      /\ IsTrimOf(message'[s].text, body.text)
            /\ (pc[s] \in {"save_message", "group_send"} /\ pc'[s] = pc[s]) =>
                  message'[s] = message[s]
            /\ SaveReturns(s) =>
                  \/ /\ messages' = Append(messages, RowOf(s))
                     /\ pc'[s] = "group_send" /\ message'[s] = message[s]
                     /\ chan' = chan
                  \/ /\ messages' = messages
                     /\ pc'[s] = "open"
                     /\ chan' = chan
            /\ SendReturns(s) =>
                  /\ pc'[s] = "open"
                  /\ messages' = messages
                  /\ chan'[s] = Append(chan[s], EventOf(s))]_vars

\* A frame whose message needed trimming was saved, broadcast and delivered
\* back to its sender.
C4_Witness ==
    \E s \in Sess :
        /\ pc[s] = "open"
        /\ \E i \in 1..Len(messages) :
              /\ messages[i].from = s /\ messages[i].text = <<"x">>
              /\ \E k \in 1..Len(out[s]) : out[s][k].fid = messages[i].fid

\* C5: a broadcast puts one and the same event on the channel of every session
\* of the room's group, the sender's included, and on no other channel; every
\* frame a session sends to its client is the next event of its channel, with
\* that event's message and username.
C5_BroadcastReachesExactlyTheGroup ==
    [][\A s \in Sess :
          /\ SendReturns(s) =>
                /\ s \in groups[room_id[s]]
                /\ \A c \in Sess :
                      chan'[c] = IF c \in groups[room_id[s]]
                                 THEN Append(chan[c], EventOf(s)) ELSE chan[c]
          /\ out'[s] # out[s] =>
                /\ chan[s] # <<>>
                /\ out'[s] = Append(out[s], Head(chan[s]))
                /\ chan'[s] = Tail(chan[s])]_vars

\* Two sessions of one room have both been sent, as their first frame, the
\* payload of a frame that one of them received from its client.
C5_Witness ==
    \E s, t \in Sess :
        /\ s # t
        /\ out[s] # <<>> /\ out[t] # <<>>
        /\ out[s][1] = out[t][1]
        /\ out[s][1].from = s

\* C6: with two sessions in the group of a room, a broadcast of one reaches
\* both; once a session has disconnected, no later broadcast reaches it; a
\* whitespace message adds no row; the rows of one connection are its
\* non-empty messages, trimmed, in the order it sent them.
C6_TwoPartyScenario ==
    /\ [](\A i \in 1..Len(messages) :
            /\ IsTrimOf(messages[i].text, messages[i].text)
            /\ \A j \in 1..Len(messages) :
                  (i < j /\ messages[i].from = messages[j].from)
                      => messages[i].fid < messages[j].fid)
    /\ [][\A a, b \in Sess :
            /\ nDisc[b] >= 1 => (chan'[b] = chan[b] /\ out'[b] = out[b])
            /\ (SendReturns(a) /\ a \in groups[room_id[a]] /\ b \in groups[room_id[a]]) =>
                  /\ Len(chan'[a]) = Len(chan[a]) + 1
                  /\ Len(chan'[b]) = Len(chan[b]) + 1
                  /\ chan'[a][Len(chan'[a])] = chan'[b][Len(chan'[b])]]_vars

\* A and B joined room 1; A's first message reached both; B disconnected; A
\* sent a whitespace message, dropped, and a second message that reached A
\* alone; the log holds A's two messages in order.
C6_Witness ==
    \E a, b \in Sess :
        /\ user[a] = "A" /\ user[b] = "B" /\ room_id[a] = 1 /\ room_id[b] = 1
        /\ nDisc[b] = 1 /\ pc[a] = "open"
        /\ "return" \in drops
        /\ Len(messages) = 2
        /\ messages[1].text = <<"x">> /\ messages[2].text = <<"x", " ", "x">>
        /\ messages[1].from = a /\ messages[2].from = a
        /\ Len(out[a]) = 2 /\ out[a][1].fid = 1 /\ out[a][2].fid = 2
        /\ out[a][1].username = "A" /\ out[a][2].message = <<"x", " ", "x">>
        /\ Len(out[b]) = 1 /\ out[b][1] = out[a][1]
        /\ chan[b] = <<>>

\* The room of connection s is not in the ChatRoom table
RoomGone(s) == \A room \in chatRooms : room.id # room_id[s]

\* C7: when the append of a frame fails (the room no longer exists, or the
\* store rejects the write) the log is unchanged, no broadcast is issued,
\* nothing is sent to any client, and the connection stays accepted, open and
\* registered, ready for its next frame.
C7_FailedSaveIsDroppedSilently ==
    [][\A s \in Sess :
          SaveReturns(s) =>
              /\ RoomGone(s) => messages' = messages
              /\ messages' = messages =>
                    /\ pc'[s] = "open"
                    /\ chan' = chan /\ out' = out
                    /\ accepted'[s] /\ ~closed'[s]
                    /\ s \in groups'[room_id[s]]]_vars

\* The first frame was saved and delivered; the room was then deleted; the
\* second frame reached save_message and was neither stored nor broadcast,
\* and its connection is open and registered.
C7_Witness ==
    \E s \in Sess :
        /\ pc[s] = "open" /\ s \in groups[room_id[s]] /\ RoomGone(s)
        /\ nextFid = 3
        /\ \A c \in Sess : /\ pc[c] \in {"open", "done"}
                           /\ \A k \in 1..Len(chan[c]) : chan[c][k].fid # 2
                           /\ \A k \in 1..Len(out[c]) : out[c][k].fid # 2
        /\ \E k \in 1..Len(out[s]) : out[s][k].fid = 1

\* C8 as stated: receive drops every frame that is not JSON, is JSON but not an
\* object, or is an object whose message is not text: nothing is stored or
\* sent, and the connection stays accepted, open and registered.
C8_MalformedFrameIsDropped ==
    [][\A s \in Sess, body \in FrameBodies :
          (body.kind \in {"notjson", "nonobject", "nontext"} /\ Receive(s, body)) =>
              /\ pc'[s] = "open"
              /\ accepted'[s] /\ ~closed'[s]
              /\ s \in groups'[room_id[s]]
              /\ messages' = messages /\ chan' = chan /\ out' = out]_vars

\* What connection c has been handed by the channel layer, in order: the
\* payloads it has sent to its client, then the events waiting on its channel
Seen(c) == out[c] \o chan[c]

\* C9: the frames of one connection are handled one at a time, in the order
\* it sent them: their rows are in that order in the Message Log, every
\* session is handed their broadcasts in that order, and while one of them is
\* between save_message and the end of group_send no later frame of the
\* connection has left a row or a broadcast.
C9_PerConnectionOrder ==
    \A s \in Sess :
        /\ \A i, j \in 1..Len(messages) :
              (i < j /\ messages[i].from = s /\ messages[j].from = s)
                  => messages[i].fid < messages[j].fid
        /\ \A c \in Sess : \A i, j \in 1..Len(Seen(c)) :
              (i < j /\ Seen(c)[i].from = s /\ Seen(c)[j].from = s)
                  => Seen(c)[i].fid < Seen(c)[j].fid
        /\ pc[s] \in {"save_message", "group_send"} =>
              /\ \A i \in 1..Len(messages) :
                    messages[i].from = s => messages[i].fid <= message[s].fid
              /\ \A c \in Sess : \A i \in 1..Len(Seen(c)) :
                    Seen(c)[i].from = s => Seen(c)[i].fid < message[s].fid

\* One connection sent two messages; both are in the log in that order and
\* another session has been sent both payloads in that order.
C9_Witness ==
    \E s, c \in Sess :
        /\ s # c
        /\ Len(messages) = 2
        /\ messages[1].from = s /\ messages[2].from = s
        /\ messages[1].fid = 1 /\ messages[2].fid = 2
        /\ Len(out[c]) = 2
        /\ out[c][1].fid = 1 /\ out[c][2].fid = 2

\* C10 as stated: a session that is sent the broadcasts of two different
\* senders is sent them in the order of their two entries in the Message Log.
C10_DeliveryInCommitOrder ==
    \A c \in Sess : \A i, j \in 1..Len(out[c]) :
        (i < j /\ out[c][i].from # out[c][j].from) =>
            \A m, n \in 1..Len(messages) :
                (messages[m].fid = out[c][i].fid /\ messages[n].fid = out[c][j].fid)
                    => m < n

\* C10, amended: all sessions are handed the broadcasts of two senders in one
\* and the same order, the order of the senders' group_send calls; that order
\* need not be the order of the two entries in the Message Log.
C10_SameOrderForAllRecipients ==
    \A c, d \in Sess :
        \A i, j \in 1..Len(Seen(c)) : \A m, n \in 1..Len(Seen(d)) :
            (i < j /\ Seen(d)[m].fid = Seen(c)[i].fid /\ Seen(d)[n].fid = Seen(c)[j].fid)
                => m < n

\* Two senders: both sessions were sent the two payloads in the same order,
\* and the two rows are in the log in the opposite order.
C10_Witness ==
    \E c, d \in Sess :
        /\ c # d
        /\ Len(out[c]) = 2 /\ out[d] = out[c]
        /\ out[c][1].from # out[c][2].from
        /\ Len(messages) = 2
        /\ messages[1].fid = out[c][2].fid /\ messages[2].fid = out[c][1].fid

\* C11: a broadcast reaches the channel of every session of the group whether
\* or not another session of the group has a closed transport, and leaves the
\* sender accepted and open with no frame sent to it; the event put on the
\* channel of a session whose transport is closed stays there, and no step of
\* that session follows. A session that leaves the group while another is
\* between save_message and group_send changes nothing of that receive.
C11_FanOutSurvivesFailedRecipient ==
    [][\A s \in Sess :
          /\ SendReturns(s) =>
                /\ \A c \in groups[room_id[s]] :
                      /\ chan'[c] = Append(chan[c], EventOf(s))
                      /\ closed[c] => (out'[c] = out[c] /\ pc'[c] = pc[c])
                /\ pc'[s] = "open" /\ accepted'[s] /\ ~closed'[s]
                /\ out'[s] = out[s]
          /\ pc[s] = "crashed" => (pc'[s] = "crashed" /\ out'[s] = out[s])
          /\ \A t \in Sess \ {s} :
                (pc[s] \in {"save_message", "group_send"} /\ nDisc'[t] # nDisc[t]) =>
                    /\ pc'[s] = pc[s] /\ message'[s] = message[s]
                    /\ chan'[s] = chan[s] /\ out'[s] = out[s]
                    /\ s \in groups[room_id[s]] => s \in groups'[room_id[s]]]_vars

\* A session whose task ended on a frame it could not handle is still in the
\* group with the event of frame 2 waiting on its channel, undelivered; the
\* sender of frame 2 is open and has been sent that frame's payload and
\* nothing else since.
C11_Witness ==
    \E s, t \in Sess :
        /\ s # t /\ room_id[s] = room_id[t]
        /\ pc[t] = "crashed" /\ closed[t] /\ t \in groups[room_id[t]]
        /\ chan[t] # <<>> /\ chan[t][Len(chan[t])].fid = 2
        /\ chan[t][Len(chan[t])].from = s
        /\ pc[s] = "open" /\ ~closed[s]
        /\ out[s] # <<>> /\ out[s][Len(out[s])].fid = 2

\* What the client of connection s can observe: whether the handshake was
\* accepted, whether the socket is closed, the frames it was sent
Obs(s) == <<accepted[s], closed[s], out[s]>>

\* C12: whatever the reason of a rejection (no authenticated user, a user who
\* is not in the room, no such room), the client observes the same thing: an
\* unaccepted open socket with no frame that becomes an unaccepted closed
\* socket with no frame, in one step, and nothing after it; the step from
\* the authentication check to the membership query shows nothing.
C12_RejectionsLookAlike ==
    /\ [](\A s \in Sess : Refused(s) => Obs(s) = <<FALSE, TRUE, <<>> >>)
    /\ [][\A s \in Sess :
            /\ (pc[s] \in {"new", "is_room_member"} /\ pc'[s] = "rejected") =>
                  /\ Obs(s) = <<FALSE, FALSE, <<>> >>
                  /\ Obs(s)' = <<FALSE, TRUE, <<>> >>
            /\ (pc[s] = "new" /\ pc'[s] = "is_room_member") => Obs(s)' = Obs(s)
            /\ (pc[s] = "is_room_member" /\ Unauthorized(s)) =>
                  (pc'[s] \in {"is_room_member", "rejected"})
            /\ Refused(s) => Obs(s)' = Obs(s)]_vars

\* The same user was refused once for room 1, which exists and of which it
\* is no participant, and once for room 2, which does not exist, and its two
\* clients have observed the same.
C12_Witness ==
    \E s, t \in Sess :
        /\ s # t
        /\ user[s] = "C" /\ user[t] = "C"
        /\ room_id[s] = 1 /\ RoomRows(1) # {}
        /\ room_id[t] = 2 /\ RoomRows(2) = {}
        /\ Refused(s) /\ Refused(t)
        /\ Obs(s) = Obs(t)

\* C13: every row of the Message Log belongs to a room of the ChatRoom table
\* and its sender is user1 or user2 of that room, whichever path appended it:
\* save_message of a connection (no row of connection s unless s passed the
\* membership check of connect for that room as that sender), the POST of
\* chat_detail or the POST of chat_room.
C13_SenderIsParticipant ==
    \A i \in 1..Len(messages) :
        /\ \E room \in chatRooms :
              /\ room.id = messages[i].room
              /\ messages[i].sender \in {room.user1, room.user2}
        /\ messages[i].from \in LogSess =>
              /\ accepted[messages[i].from]
              /\ room_id[messages[i].from] = messages[i].room
              /\ user[messages[i].from] = messages[i].sender

\* The log holds a row that a connection saved in room 1 and a row that a
\* POST appended in room 2, a room made for user C after the start.
C13_Witness ==
    /\ Len(messages) = 2
    /\ \E i, j \in 1..2 :
          /\ messages[i].from = 1 /\ messages[i].room = 1
          /\ messages[j].from = 0 /\ messages[j].room = 2
          /\ messages[j].sender = "C"

\* The ChatRoom rows of the unordered pair {a, b}
PairRooms(a, b) == {room \in chatRooms : {room.user1, room.user2} = {a, b}}

\* Request q is at the INSERT of a ChatRoom row
AtCreate(q) == req[q].pc \in {"start_chat_create", "get_or_create"}

\* C14: every ChatRoom row has two different users, the one with the lower
\* id as user1, no two rows have the same id or the same unordered pair, and
\* a request that reaches its INSERT when the row of its pair is already
\* there adds no row, however start_chat and chat_room requests of the two
\* users interleave.
C14_OneRoomPerPair ==
    /\ [](\A r1 \in chatRooms :
            /\ r1.user1 # r1.user2
            /\ uid(r1.user1) < uid(r1.user2)
            /\ \A r2 \in chatRooms :
                  (r1.id = r2.id \/ {r1.user1, r1.user2} = {r2.user1, r2.user2})
                      => r1 = r2)
    /\ [][\A q \in Reqs :
            (AtCreate(q) /\ ~AtCreate(q)' /\ PairRooms(req[q].me, req[q].other) # {})
                => chatRooms' = chatRooms]_vars

\* The room of A and C was made by one request while the start_chat of C
\* with A, which had found no room, is at its INSERT.
C14_Witness ==
    \E q \in Reqs :
        /\ req[q].pc = "start_chat_create"
        /\ req[q].me = "C" /\ req[q].other = "A"
        /\ PairRooms("A", "C") = {[id |-> 2, user1 |-> "A", user2 |-> "C"]}
        /\ Cardinality(chatRooms) = 2

\* The task of connection s has ended: disconnect has run, or an exception
\* has left receive
Terminated(s) == pc[s] \in {"done", "crashed"}

\* C15 as stated: on every exit path the deregistration has run when the task
\* ends: a connection whose task has ended is in no Broadcast Group.
C15_TerminatedIsDeregistered ==
    \A s \in Sess : Terminated(s) => ~Registered(s)

\* The Message Log has the row of message m of connection s: its tag, the
\* room and user of s, its text
Committed(s, m) ==
    \E i \in 1..Len(messages) :
        /\ messages[i].fid = m.fid
        /\ messages[i].room = room_id[s]
        /\ messages[i].sender = user[s]
        /\ messages[i].text = m.text

\* C16: receive enters group_send only in the step in which save_message
\* appended the row of its message, so the commit precedes the broadcast; as
\* long as the room is in the ChatRoom table (no account deletion has taken
\* it and its messages away) the message being broadcast, every event on a
\* channel and every payload sent to a client has its row in the Message
\* Log, with the same text and the sender whose username it carries.
C16_CommitBeforeBroadcast ==
    /\ [](\A s \in Sess :
            /\ (pc[s] = "group_send" /\ ~RoomGone(s)) => Committed(s, message[s])
            /\ \A k \in 1..Len(Seen(s)) :
                  LET e == Seen(s)[k]
                  IN ~RoomGone(e.from) =>
                        /\ e.username = user[e.from]
                        /\ Committed(e.from, [fid |-> e.fid, text |-> e.message]))
    /\ [][\A s \in Sess :
            (pc[s] # "group_send" /\ pc'[s] = "group_send") =>
                /\ messages' = Append(messages, RowOf(s))
                /\ chan' = chan /\ out' = out]_vars

\* Frame 1 is in the log and has been sent to the clients of both sessions;
\* frame 2 is in the log and has not been broadcast yet.
C16_Witness ==
    \E s, t \in Sess :
        /\ s # t
        /\ Len(messages) = 2 /\ messages[1].fid = 1 /\ messages[2].fid = 2
        /\ Len(out[s]) = 1 /\ out[s][1].fid = 1
        /\ Len(out[t]) = 1 /\ out[t][1].fid = 1
        /\ chan[s] = <<>> /\ chan[t] = <<>>
        /\ pc[s] = "group_send"

\* C17 as stated: a step of a chat operation (any step that deletes no
\* account) leaves the Message Log as it is or adds one row at its end, and
\* the rows of a room sorted by timestamp are the rows in insertion order:
\* of two rows of a room the earlier one has the smaller timestamp.
C17_AppendOnlyInTimestampOrder ==
    /\ [](\A i, j \in 1..Len(messages) :
            (i < j /\ messages[i].room = messages[j].room)
                => messages[i].timestamp < messages[j].timestamp)
    /\ [][users' = users =>
            \/ messages' = messages
            \/ /\ Len(messages') = Len(messages) + 1
               /\ SubSeq(messages', 1, Len(messages)) = messages]_vars

\* The step is a step of the connect of s (the authentication check, the
\* membership query with its rejection, group_add, accept) or a disconnect of s
ConnectOrDisconnectStep(s) ==
    \/ pc[s] \in {"new", "is_room_member", "group_add", "accept"} /\ pc'[s] # pc[s]
    \/ nDisc'[s] # nDisc[s]

\* C18: a step of the connect, of the rejection or of the disconnect of a
\* connection leaves every other connection as it was: its place in its
\* handler, its user and room, its handshake and socket, the message of its
\* receive, the frames sent to its client, the events waiting on its channel
\* and its registrations; it leaves the tables alone; so whatever another
\* connection could do before the step it can do after it.
C18_OnlyOwnStateChanges ==
    [][\A s \in Sess :
          ConnectOrDisconnectStep(s) =>
              /\ \A t \in Sess \ {s} :
                    /\ pc'[t] = pc[t] /\ user'[t] = user[t] /\ room_id'[t] = room_id[t]
                    /\ accepted'[t] = accepted[t] /\ closed'[t] = closed[t]
                    /\ message'[t] = message[t] /\ nDisc'[t] = nDisc[t]
                    /\ out'[t] = out[t] /\ chan'[t] = chan[t]
                    /\ \A r \in RoomIds : (t \in groups'[r]) = (t \in groups[r])
              /\ chan'[s] = chan[s] /\ out'[s] = out[s]
              /\ \A r \in RoomIds \ {room_id'[s]} : groups'[r] = groups[r]
              /\ messages' = messages /\ chatRooms' = chatRooms /\ users' = users
              /\ nextFid' = nextFid]_vars

\* One session of the room has joined and disconnected while the other,
\* still registered, is inside receive at save_message with an event waiting
\* on its channel.
C18_Witness ==
    \E s, t \in Sess :
        /\ s # t /\ room_id[s] = room_id[t]
        /\ accepted[s] /\ nDisc[s] = 1 /\ pc[s] = "done"
        /\ pc[t] = "save_message" /\ chan[t] # <<>>
        /\ t \in groups[room_id[t]] /\ ~closed[t]

\* The event / payload of the frame tagged f is on the channel of c, has been
\* sent to the client of c
Waiting(c, f) == \E k \in 1..Len(chan[c]) : chan[c][k].fid = f
Delivered(c, f) == \E k \in 1..Len(out[c]) : out[c][k].fid = f

\* C19: a broadcast puts its event on the channel of every session that is
\* in the room's group when group_send is called; no session is handed the
\* same broadcast twice; and under fair scheduling a session with the event
\* on its channel is sent the payload, unless its connection ends first.
C19_RegisteredSessionIsDeliveredOnce ==
    /\ [](\A c \in Sess : \A i, j \in 1..Len(Seen(c)) :
            Seen(c)[i].fid = Seen(c)[j].fid => i = j)
    /\ [][\A s \in Sess : SendReturns(s) =>
            \A c \in groups[room_id[s]] :
                \E k \in 1..Len(chan'[c]) : chan'[c][k].fid = message[s].fid]_vars
    /\ \A c \in Sess : \A f \in Fids :
            Waiting(c, f) ~> (Delivered(c, f) \/ closed[c])

\* Two sessions of a room, both still connected, have each been sent the
\* payloads of frames 1 and 2, each once, and no event is waiting.
C19_Witness ==
    \E s, c \in Sess :
        /\ s # c
        /\ ~closed[s] /\ ~closed[c] /\ pc[s] = "open" /\ pc[c] = "open"
        /\ Len(out[s]) = 2 /\ Len(out[c]) = 2
        /\ Delivered(s, 1) /\ Delivered(s, 2) /\ Delivered(c, 1) /\ Delivered(c, 2)
        /\ chan[s] = <<>> /\ chan[c] = <<>>

\* The steps of connect: Pending is "new", Authorized is "is_room_member" to
\* "accept" (authenticated, then found to be a member, then registered),
\* Joined is "open", Rejected is "rejected"
ConnectTransitions ==
    {<<"new", "is_room_member">>, <<"new", "rejected">>,
     <<"is_room_member", "group_add">>, <<"is_room_member", "rejected">>,
     <<"group_add", "accept">>, <<"accept", "open">>}

\* C20: connect moves only along new -> is_room_member -> group_add ->
\* accept -> open, or from new or is_room_member to rejected; the membership
\* query is made only for an authenticated user and passed only by a member;
\* a session enters a group only in the group_add step of its own connect,
\* before its accept; it is accepted only in the accept step, when it is in
\* the group of its room; a rejected session is never accepted or registered
\* and only its disconnect follows.
C20_ConnectProtocol ==
    /\ [](\A s \in Sess :
            /\ pc[s] \in {"is_room_member", "group_add", "accept"} =>
                  (user[s] # Anonymous /\ ~accepted[s])
            /\ pc[s] = "accept" => s \in groups[room_id[s]]
            /\ pc[s] \in {"new", "is_room_member", "group_add", "rejected"} =>
                  (~Registered(s) /\ ~accepted[s]))
    /\ [][\A s \in Sess :
            /\ (pc[s] \in {"new", "is_room_member", "group_add", "accept"}
                    /\ pc'[s] # pc[s]) => <<pc[s], pc'[s]>> \in ConnectTransitions
            /\ (pc[s] = "is_room_member" /\ pc'[s] = "group_add") => is_room_member(s)
            /\ (~Registered(s) /\ Registered(s)') =>
                  (pc[s] = "group_add" /\ ~accepted[s] /\ s \in groups'[room_id[s]])
            /\ (~accepted[s] /\ accepted'[s]) =>
                  (pc[s] = "accept" /\ pc'[s] = "open" /\ s \in groups[room_id[s]]
                      /\ s \in groups'[room_id[s]])
            /\ pc[s] = "rejected" =>
                  (pc'[s] \in {"rejected", "done"} /\ ~accepted'[s] /\ ~Registered(s)')
            /\ (pc[s] = "done" /\ ~accepted[s]) =>
                  (pc'[s] = "done" /\ ~accepted'[s] /\ ~Registered(s)')]_vars

\* One connection is registered in the group of its room and not yet
\* accepted; the other, of an authenticated user, was rejected by the
\* membership query and has been disconnected.
C20_Witness ==
    \E s, t \in Sess :
        /\ pc[s] = "accept" /\ s \in groups[room_id[s]] /\ ~accepted[s]
        /\ pc[t] = "done" /\ user[t] # Anonymous /\ ~accepted[t] /\ nDisc[t] = 1

\* The two users of room r. The users of a ChatRoom row are never changed and
\* the id of a deleted row is not given to another, so they are those of the
\* row the room had when it was made.
ParticipantsOf(r) ==
    {room.user1 : room \in {x \in TwoRooms : x.id = r}}
        \cup {room.user2 : room \in {x \in TwoRooms : x.id = r}}

\* C21: every event handed to a session and every payload sent to its client
\* comes from a connection of the session's own room, and the user of the
\* session is one of the two participants of that room; a session is in no
\* group but that of its room, and only as a participant of it.
C21_OnlyParticipantsReceive ==
    \A c \in Sess :
        /\ \A k \in 1..Len(Seen(c)) :
              /\ room_id[Seen(c)[k].from] = room_id[c]
              /\ user[c] \in ParticipantsOf(room_id[Seen(c)[k].from])
              /\ Seen(c)[k].username \in ParticipantsOf(room_id[c])
        /\ \A r \in RoomIds :
              c \in groups[r] => (r = room_id[c] /\ user[c] \in ParticipantsOf(r))

\* B in room 1 and C in room 2 are joined and each has sent a message and
\* been sent its own payload and nothing else.
C21_Witness ==
    \E s, t \in Sess :
        /\ user[s] = "B" /\ room_id[s] = 1 /\ user[t] = "C" /\ room_id[t] = 2
        /\ pc[s] = "open" /\ pc[t] = "open"
        /\ Len(out[s]) = 1 /\ out[s][1].from = s
        /\ Len(out[t]) = 1 /\ out[t][1].from = t
        /\ chan[s] = <<>> /\ chan[t] = <<>>
        /\ Len(messages) = 2

\* C22: a frame is sent to the client of a session only when the session's
\* accept has completed: a session that is registered and not yet accepted
\* can be handed the event of another session's broadcast, and the event
\* waits on its channel, untouched, until connect has returned.
C22_NoFrameBeforeAccept ==
    /\ [](\A s \in Sess : out[s] # <<>> => accepted[s])
    /\ [][\A s \in Sess :
            /\ out'[s] # out[s] => (accepted[s] /\ pc[s] = "open")
            /\ ~accepted[s] =>
                  /\ out'[s] = out[s]
                  /\ \/ chan'[s] = chan[s]
                     \/ \E t \in Sess \ {s} :
                           SendReturns(t) /\ chan'[s] = Append(chan[s], EventOf(t))]_vars

\* A session is registered and at its accept, not yet accepted, with the
\* event of the other session's broadcast waiting on its channel and no
\* frame sent to it; the sender has already been sent the payload.
C22_Witness ==
    \E s, t \in Sess :
        /\ s # t
        /\ pc[s] = "accept" /\ ~accepted[s] /\ s \in groups[room_id[s]]
        /\ chan[s] # <<>> /\ chan[s][1].from = t /\ out[s] = <<>>
        /\ out[t] # <<>> /\ out[t][1].fid = chan[s][1].fid

\* The PasswordResetOTP row of user u can still be verified: five minutes
\* have not passed since it was written
Unexpired(row) == now < row.created_at + FiveMinutes

\* The step serves a request of the view `view` for user u
Serves(view, u) == now' = now /\ oreq'.view = view /\ oreq'.user = u

\* C23: a user's password changes only in a reset_password request for that
\* user, made while the user's OTP row is there with is_verified true, and
\* the step deletes the row; is_verified turns true only in a verify_otp
\* request for that user that carries the otp of the stored row while the row
\* is unexpired; a row appears only by forgot_password, and a forgot_password
\* that writes a row leaves it with a generated otp and is_verified false; a
\* row disappears only by a reset_password that sets the password. After a
\* reset the user has no row, so the next change of the password needs a new
\* otp and a new verification.
C23_ResetOnlyAfterVerifiedOtp ==
    /\ [](\A u \in AllUsers : Cardinality({row \in otps : row.user = u}) <= 1)
    /\ [][\A u \in AllUsers :
            LET old == {row \in otps : row.user = u}
                new == {row \in otps' : row.user = u}
            IN /\ password'[u] # password[u] =>
                     /\ Serves("reset_password", u)
                     /\ \E row \in old : row.is_verified
                     /\ password'[u] = oreq'.password1
                     /\ new = {}
               /\ (\E row \in new : row.is_verified) /\ ~(\E row \in old : row.is_verified) =>
                     /\ Serves("verify_otp", u)
                     /\ \E row \in old :
                           /\ row.otp = oreq'.otp
                           /\ Unexpired(row)
                           /\ new = {[row EXCEPT !.is_verified = TRUE, !.created_at = now]}
               /\ new # old /\ Serves("forgot_password", u) =>
                     \E row \in new : row.otp \in Otps /\ ~row.is_verified
                                                      /\ row.created_at = now
               /\ old = {} /\ new # {} => Serves("forgot_password", u)
               /\ old # {} /\ new = {} =>
                     /\ Serves("reset_password", u)
                     /\ \E row \in old : row.is_verified
                     /\ password'[u] = oreq'.password1
               /\ password'[u] # password[u] \/ (old # {} /\ new = {}) =>
                     oreq'.method = "POST" /\ Len(oreq'.password1) >= 8]_vars

\* A's password has been reset after a verification made when time had
\* passed since the otp was generated: A has a new password and no row, while
\* B, whose otp was generated and never verified, keeps the old password
C23_Witness ==
    /\ oreq.view = "reset_password" /\ oreq.user = "A"
    /\ password["A"] = "password1" /\ password["B"] = "original"
    /\ {row \in otps : row.user = "A"} = {}
    /\ \E row \in otps : row.user = "B" /\ ~row.is_verified /\ row.created_at < now

====
